---- MODULE Spec2Model ----
(***************************************************************************)
(* A model of the GroupMe moderation bot of src/app.py: the join-record    *)
(* mapping recently_joined, the wall clock, and the webhook handler run by *)
(* each worker thread of the Flask server, one step per access to shared   *)
(* state or outbound HTTP call.                                            *)
(***************************************************************************)
EXTENDS Integers, Sequences, FiniteSets, TLC

\* ---------------------------------------------------------------- bounds
\* Hours the wall clock advances in one Tick, the last instant modelled, and
\* the longest enumerated text handed to contains_banned_keyword alone.
TickHours == 36
MaxTime == 144
MaxProbeLen == 3

\* ------------------------------------------------------------- constants
NEW_USER_WINDOW_HOURS == 72

None == "None"
Users == {"u1", "u2"}
Handlers == {"w1", "w2"}
Times == 0..MaxTime

\* ------------------------------------------------------------------ text
\* A text is a sequence of one-character strings.
UpperCase == <<"A","B","C","D","E","F","G","H","I","J","K","L","M",
               "N","O","P","Q","R","S","T","U","V","W","X","Y","Z">>
LowerCase == <<"a","b","c","d","e","f","g","h","i","j","k","l","m",
               "n","o","p","q","r","s","t","u","v","w","x","y","z">>

\* str.lower() on one character
LowerChar(c) ==
  IF \E i \in 1..Len(UpperCase) : UpperCase[i] = c
  THEN LowerCase[CHOOSE i \in 1..Len(UpperCase) : UpperCase[i] = c]
  ELSE c

\* str.lower()
lower(s) == [i \in 1..Len(s) |-> LowerChar(s[i])]

\* Python's `k in s` on strings: k occurs in s as a contiguous substring
\* (the empty string occurs in every string).
IsSubstring(k, s) ==
  \E i \in 0..(Len(s) - Len(k)) : \A j \in 1..Len(k) : s[i + j] = k[j]

\* The list literal of lines 22-54. 'health' and 'charger included' are
\* adjacent literals with no comma between them (lines 50-51): Python
\* concatenates them into the one entry 'healthcharger included'.
BANNED_KEYWORDS == <<
       <<"g","i","v","e"," ","o","u","t">>,
       <<"f","o","r"," ","f","r","e","e">>,
       <<"w","i","l","l","i","n","g"," ","t","o"," ","g","i","v","e">>,
       <<"f","r","e","e"," ","b","e","c","a","u","s","e">>,
       <<"f","r","e","e">>,
       <<"g","i","v","e"," ","i","t"," ","b","e","c","a","u","s","e">>,
       <<"m","a","c","b","o","o","k">>,
       <<"m","a","c","b","o","o","k"," ","a","i","r">>,
       <<"p","s","5">>,
       <<"p","l","a","y","s","t","a","t","i","o","n">>,
       <<"g","a","m","i","n","g"," ","s","y","s","t","e","m">>,
       <<"m","o","d","e","l"," ","2","0","2","5">>,
       <<"l","o","s","t"," ","m","y"," ","s","o","n">>,
       <<"c","a","n","c","e","r">>,
       <<"s","o","n">>,
       <<"d","a","u","g","h","t","e","r">>,
       <<"h","u","r","t","s"," ","m","y"," ","s","o","u","l">>,
       <<"n","o"," ","m","o","t","h","e","r"," ","s","h","o","u","l","d">>,
       <<"g","o","d"," ","k","n","o","w","s"," ","b","e","s","t">>,
       <<"t","e","x","t"," ","m","e">>,
       <<"s","e","n","d"," ","m","e"," ","a"," ","m","e","s","s","a","g","e">>,
       <<"e","m","a","i","l">>,
       <<"g","m","a","i","l">>,
       <<"h","o","t","m","a","i","l">>,
       <<"y","a","h","o","o">>,
       <<"p","e","r","f","e","c","t"," ","h","e","a","l","t","h"," ","a","n","d"," ","g","o","o","d"," ","c","o","n","d","i","t","i","o","n">>,
       <<"c","o","n","d","i","t","i","o","n">>,
       <<"h","e","a","l","t","h","c","h","a","r","g","e","r"," ","i","n","c","l","u","d","e","d">>,
       <<"a","f","f","o","r","d"," ","o","n","e">>,
       <<"i","n","t","e","r","e","s","t","e","d">>>>

\* A text that is no string: the JSON number 5 (truthy, without .lower()).
NotAString == <<"<5>">>

\* mutant of contains_banned_keyword: the text is not lower-cased
contains_banned_keyword_cased(text) ==
  IF text = <<>> THEN FALSE
  ELSE \E n \in 1..Len(BANNED_KEYWORDS) :
         IsSubstring(lower(BANNED_KEYWORDS[n]), text)

\* mutant of contains_banned_keyword: the list holds an empty entry, which
\* occurs in every text that is not empty
contains_banned_keyword_any(text) ==
  IF text = <<>> THEN FALSE
  ELSE LET text_lower == lower(text)
       IN \/ IsSubstring(<<>>, text_lower)
          \/ \E n \in 1..Len(BANNED_KEYWORDS) :
               IsSubstring(lower(BANNED_KEYWORDS[n]), text_lower)

\* contains_banned_keyword, lines 64-68, for a string text
contains_banned_keyword(text) ==
  IF text = <<>> THEN FALSE
  ELSE LET text_lower == lower(text)
       IN \E n \in 1..Len(BANNED_KEYWORDS) :
            IsSubstring(lower(BANNED_KEYWORDS[n]), text_lower)

JoinWordAdded == <<"a","d","d","e","d">>
JoinWordJoined == <<"j","o","i","n","e","d">>

\* mutant of is_join_text: only 'added' is looked for
is_join_text_added_only(text) == IsSubstring(JoinWordAdded, lower(text))

\* line 175: 'added' in text.lower() or 'joined' in text.lower()
is_join_text(text) ==
  IsSubstring(JoinWordAdded, lower(text)) \/ IsSubstring(JoinWordJoined, lower(text))

\* ---------------------------------------------------------------- events
TextHi == <<"h","i">>
TextAd == <<"P","S","5">>
TextJoin == <<"A","d","d","e","d">>
TextJoinAd == <<"J","O","I","N","E","D"," ","p","s","5">>
Texts == {TextHi, TextAd, TextJoin, TextJoinAd}

Names == {"Ann"}
MessageIds == {"m1"}

\* request.get_json() of a well-formed payload (section 6 of the interface):
\* text a string, user_id, name (default 'Unknown'), id optional, system
\* optional.
WellFormed ==
  [object : {TRUE}, system : BOOLEAN, text : Texts, user_id : Users,
   name : Names, id : MessageIds \cup {None}]

\* Payloads that are no JSON object, or whose text is no string.
NotAnObject ==
  [object |-> FALSE, system |-> FALSE, text |-> TextHi, user_id |-> "u1",
   name |-> "Ann", id |-> None]
TextNotString ==
  [object : {TRUE}, system : BOOLEAN, text : {NotAString}, user_id : Users,
   name : Names, id : {None}]
Malformed == {NotAnObject} \cup TextNotString

Payloads == WellFormed \cup Malformed

\* The payloads given to the workers when two of them serve at once: the
\* join announcement and the advertisement of one user.
RacePayloads ==
  {e \in WellFormed : /\ e.user_id = "u1"
                      /\ \/ e.system /\ e.text = TextJoin /\ e.id = None
                         \/ ~e.system /\ e.text = TextAd /\ e.id = "m1"}

\* Outcomes of one outbound HTTP call: the success status the caller tests
\* for, any other status, or requests.RequestException.
HttpOutcomes == {"success", "status", "exception"}
\* The group lookup's 200 response: the user is among the members, is not,
\* or the body lacks 'response'/'members' (KeyError).
LookupOutcomes == {"found", "missing", "malformed", "status", "exception"}

MembershipOf(u) == IF u = "u1" THEN "member1" ELSE "member2"
OK == 200
ServerError == 500

\* An unset local, and a set one
Nothing == <<>>
Some(x) == <<x>>

\* The keyword and join-wording tests of every modelled text, evaluated once
BannedText == [t \in Texts |-> contains_banned_keyword(t)]
JoinText == [t \in Texts |-> is_join_text(t)]

\* dict operations on the mapping
Has(m, k) == k \in DOMAIN m
Put(m, k, v) == [x \in DOMAIN m \cup {k} |-> IF x = k THEN v ELSE m[x]]
Del(m, k) == [x \in DOMAIN m \ {k} |-> m[x]]

VARIABLES
  recently_joined,  \* line 56: dict from user id to join instant
  now,              \* datetime.now(), in hours
  workers,          \* the worker threads of the server that take requests
  pc,               \* where each worker thread is in webhook()
  ev,               \* the payload each worker is handling
  join_time,        \* is_new_user local, line 158
  time_since_join,  \* is_new_user local, line 159
  is_new,           \* is_new_user's return value
  membership_id,    \* kick_user local, line 133
  calls,            \* outbound requests made for the current payload
  ack,              \* status code webhook() returned
  raised,           \* the exception caught at line 189
  overwrote_old,    \* history: the user's record replaced one older than
                    \* the window
  overlap,          \* history: is_new_user accessed the mapping while
                    \* another worker was inside an outbound request
  stale,            \* history: a join of the worker's sender was recorded
                    \* after the worker's recency check had returned True
  probe,            \* a text handed to contains_banned_keyword on its own
  verdict           \* what contains_banned_keyword returned for probe

vars == <<recently_joined, now, workers, pc, ev, join_time, time_since_join,
          is_new, membership_id, calls, ack, raised, overwrote_old, overlap,
          stale, probe, verdict>>

\* what no step of a handler changes
static == <<workers, probe, verdict>>

locals == <<join_time, time_since_join, is_new, membership_id>>
history == <<overwrote_old, overlap, stale>>

\* The payloads a worker may be given: any payload when one worker serves,
\* the race payloads when two do (the product of two workers' states is
\* kept small by the payloads, not by the interleaving, which is free).
PayloadsOf(w) == IF w = {"w1"} THEN Payloads ELSE RacePayloads

\* The module is loaded: the mapping is empty (line 56), no request has
\* been taken.
Loaded ==
  /\ recently_joined = <<>>
  /\ now = 0
  /\ pc = [h \in Handlers |-> "idle"]
  /\ ev = [h \in Handlers |-> NotAnObject]
  /\ join_time = [h \in Handlers |-> Nothing]
  /\ time_since_join = [h \in Handlers |-> Nothing]
  /\ is_new = [h \in Handlers |-> Nothing]
  /\ membership_id = [h \in Handlers |-> Nothing]
  /\ calls = [h \in Handlers |-> <<>>]
  /\ ack = [h \in Handlers |-> Nothing]
  /\ raised = [h \in Handlers |-> Nothing]
  /\ overwrote_old = [u \in Users |-> FALSE]
  /\ overlap = [h \in Handlers |-> FALSE]
  /\ stale = [h \in Handlers |-> FALSE]

Init ==
  /\ Loaded
  /\ workers \in {{"w1"}, Handlers}
  /\ probe = <<>>
  /\ verdict = Nothing

\* mutant of Tick: the local wall clock is also set back (end of daylight
\* saving time)
TickSetBack ==
  /\ \/ now + TickHours <= MaxTime /\ now' = now + TickHours
     \/ now - TickHours >= 0 /\ now' = now - TickHours
  /\ UNCHANGED <<recently_joined, static, pc, ev, locals, calls, ack, raised,
                 history>>

\* The wall clock advances.
Tick ==
  /\ now + TickHours <= MaxTime
  /\ now' = now + TickHours
  /\ UNCHANGED <<recently_joined, static, pc, ev, locals, calls, ack, raised,
                 history>>

Goto(h, l) ==
  /\ pc' = [pc EXCEPT ![h] = l]
  /\ UNCHANGED <<ack, raised>>

\* return '', 200  (lines 178, 188)
Return(h) ==
  /\ pc' = [pc EXCEPT ![h] = "done"]
  /\ ack' = [ack EXCEPT ![h] = Some(OK)]
  /\ UNCHANGED raised

\* mutant of Raise: no try/except around the handler, the exception ends
\* the worker
RaiseUncaught(h, exc) ==
  /\ pc' = [pc EXCEPT ![h] = "crashed"]
  /\ raised' = [raised EXCEPT ![h] = Some(exc)]
  /\ UNCHANGED ack

\* an exception reaches line 189: return '', 500
Raise(h, exc) ==
  /\ pc' = [pc EXCEPT ![h] = "done"]
  /\ ack' = [ack EXCEPT ![h] = Some(ServerError)]
  /\ raised' = [raised EXCEPT ![h] = Some(exc)]

\* The worker is inside an outbound request: delete, lookup, removal, notify
InOutbound(h) == pc[h] \in {"L182", "L133", "L138", "L185"}

\* The recency check of worker h has returned True: its pipeline is under
\* way (lines 181-187), or has ended with the sender removed.
PastCheck(h) ==
  \/ pc[h] \in {"L182", "L133", "L138", "L185", "L186", "L187"}
  \/ /\ pc[h] = "done"
     /\ \E i \in DOMAIN calls[h] : calls[h][i].op = "remove" /\ calls[h][i].res = "success"

\* history: is_new_user, run by worker h, accesses the mapping
Touch(h) ==
  overlap' = [overlap EXCEPT ![h] = @ \/ \E g \in Handlers \ {h} : InOutbound(g)]

Request(h, op, arg, res) ==
  calls' = [calls EXCEPT ![h] = Append(@, [op |-> op, arg |-> arg, res |-> res])]

\* line 174-175: the payload is a system event announcing a join
IsJoinEvent(e) == e.system /\ JoinText[e.text]

\* mutant of RecordJoin: dict.setdefault, the first join is kept
RecordJoinKeepFirst(m, u, t) == IF Has(m, u) THEN m ELSE Put(m, u, t)

\* line 176: recently_joined[user_id] = datetime.now()
RecordJoin(m, u, t) == Put(m, u, t)

\* A worker thread is given a request: webhook() is entered.
webhook(h, e) ==
  /\ h \in workers
  /\ pc[h] \in {"idle", "done"}
  /\ pc' = [pc EXCEPT ![h] = "L168"]
  /\ ev' = [ev EXCEPT ![h] = e]
  /\ calls' = [calls EXCEPT ![h] = <<>>]
  /\ join_time' = [join_time EXCEPT ![h] = Nothing]
  /\ time_since_join' = [time_since_join EXCEPT ![h] = Nothing]
  /\ is_new' = [is_new EXCEPT ![h] = Nothing]
  /\ membership_id' = [membership_id EXCEPT ![h] = Nothing]
  /\ ack' = [ack EXCEPT ![h] = Nothing]
  /\ raised' = [raised EXCEPT ![h] = Nothing]
  /\ overlap' = [overlap EXCEPT ![h] = FALSE]
  /\ stale' = [stale EXCEPT ![h] = FALSE]
  /\ UNCHANGED <<recently_joined, now, static, overwrote_old>>

\* lines 168-180, up to the first test of the mapping: the payload is
\* parsed, a join is recorded (line 176) or the keyword test of line 180 is
\* evaluated.
Dispatch(h) ==
  /\ pc[h] = "L168"
  /\ LET e == ev[h] IN
     IF ~e.object \/ e.text = NotAString
     THEN \* data.get on a non-dict (line 169), .lower() on a non-string
          \* (line 175 or 67)
          /\ Raise(h, "AttributeError")
          /\ UNCHANGED <<recently_joined, history>>
     ELSE IF IsJoinEvent(e)
     THEN /\ recently_joined' = RecordJoin(recently_joined, e.user_id, now)
          /\ overwrote_old' = [overwrote_old EXCEPT ![e.user_id] =
                                  /\ Has(recently_joined, e.user_id)
                                  /\ now - recently_joined[e.user_id]
                                       > NEW_USER_WINDOW_HOURS]
          /\ stale' = [g \in Handlers |->
                        \/ stale[g]
                        \/ g # h /\ ev[g].user_id = e.user_id /\ PastCheck(g)]
          /\ UNCHANGED overlap
          /\ Return(h)
     ELSE IF ~BannedText[e.text]
     THEN /\ Return(h)
          /\ UNCHANGED <<recently_joined, history>>
     ELSE /\ Goto(h, "L155")
          /\ UNCHANGED <<recently_joined, history>>
  /\ UNCHANGED <<now, static, ev, locals, calls>>

\* mutant of IsNewCheck: the mapping is locked by a worker for the whole of
\* its moderation pipeline, outbound requests included
IsNewCheckExclusive(h) ==
  /\ pc[h] = "L155"
  /\ \A g \in Handlers \ {h} : pc[g] \notin {"L182", "L133", "L138", "L185", "L186", "L187"}
  /\ IF ~Has(recently_joined, ev[h].user_id)
     THEN /\ is_new' = [is_new EXCEPT ![h] = Some(FALSE)]
          /\ Goto(h, "L180")
     ELSE /\ Goto(h, "L158")
          /\ UNCHANGED is_new
  /\ Touch(h)
  /\ UNCHANGED <<recently_joined, now, static, ev, join_time, time_since_join,
                 membership_id, calls, overwrote_old,
                 stale>>

\* is_new_user line 155: if user_id not in recently_joined: return False
IsNewCheck(h) ==
  /\ pc[h] = "L155"
  /\ IF ~Has(recently_joined, ev[h].user_id)
     THEN /\ is_new' = [is_new EXCEPT ![h] = Some(FALSE)]
          /\ Goto(h, "L180")
     ELSE /\ Goto(h, "L158")
          /\ UNCHANGED is_new
  /\ Touch(h)
  /\ UNCHANGED <<recently_joined, now, static, ev, join_time, time_since_join,
                 membership_id, calls, overwrote_old,
                 stale>>

\* line 158: join_time = recently_joined[user_id]; KeyError when absent
IsNewRead(h) ==
  /\ pc[h] = "L158"
  /\ IF ~Has(recently_joined, ev[h].user_id)
     THEN /\ Raise(h, "KeyError(user_id)")
          /\ UNCHANGED join_time
     ELSE /\ join_time' = [join_time EXCEPT ![h] = Some(recently_joined[ev[h].user_id])]
          /\ Goto(h, "L159")
  /\ Touch(h)
  /\ UNCHANGED <<recently_joined, now, static, ev, time_since_join, is_new,
                 membership_id, calls, overwrote_old,
                 stale>>

\* mutant of Expired: >= for >
ExpiredAtWindow(elapsed) == elapsed >= NEW_USER_WINDOW_HOURS

\* line 160: time_since_join > timedelta(hours=NEW_USER_WINDOW_HOURS)
Expired(elapsed) == elapsed > NEW_USER_WINDOW_HOURS

\* lines 159-160, 163: time_since_join = datetime.now() - join_time and the
\* comparison with the window
IsNewElapsed(h) ==
  /\ pc[h] = "L159"
  /\ time_since_join' = [time_since_join EXCEPT ![h] = Some(now - join_time[h][1])]
  /\ IF Expired(now - join_time[h][1])
     THEN /\ Goto(h, "L161")
          /\ UNCHANGED is_new
     ELSE /\ is_new' = [is_new EXCEPT ![h] = Some(TRUE)]
          /\ Goto(h, "L180")
  /\ UNCHANGED <<recently_joined, now, static, ev, join_time, membership_id,
                 calls, history>>

\* mutant of IsNewEvict: returns False without the del of line 161
IsNewEvictKeeps(h) ==
  /\ pc[h] = "L161"
  /\ is_new' = [is_new EXCEPT ![h] = Some(FALSE)]
  /\ Goto(h, "L180")
  /\ Touch(h)
  /\ UNCHANGED <<recently_joined, now, static, ev, join_time, time_since_join,
                 membership_id, calls, overwrote_old,
                 stale>>

\* lines 161-162: del recently_joined[user_id]; return False
IsNewEvict(h) ==
  /\ pc[h] = "L161"
  /\ IF ~Has(recently_joined, ev[h].user_id)
     THEN /\ Raise(h, "KeyError(user_id)")
          /\ UNCHANGED <<recently_joined, is_new, overwrote_old>>
     ELSE /\ recently_joined' = Del(recently_joined, ev[h].user_id)
          /\ overwrote_old' = [overwrote_old EXCEPT ![ev[h].user_id] = FALSE]
          /\ is_new' = [is_new EXCEPT ![h] = Some(FALSE)]
          /\ Goto(h, "L180")
  /\ Touch(h)
  /\ UNCHANGED <<now, static, ev, join_time, time_since_join, membership_id,
                 calls,
                 stale>>

\* mutant of Moderate: the is_new_user test of line 180 is dropped
ModerateAlways(h) ==
  /\ pc[h] = "L180"
  /\ Goto(h, IF ev[h].id # None THEN "L182" ELSE "L133")
  /\ join_time' = [join_time EXCEPT ![h] = Nothing]
  /\ time_since_join' = [time_since_join EXCEPT ![h] = Nothing]
  /\ overlap' = [overlap EXCEPT ![h] = FALSE]
  /\ UNCHANGED <<recently_joined, now, static, ev, is_new, membership_id,
                 calls, overwrote_old,
                 stale>>

\* lines 180-181: the branch on is_new_user's result
Moderate(h) ==
  /\ pc[h] = "L180"
  /\ IF is_new[h] = Some(TRUE)
     THEN Goto(h, IF ev[h].id # None THEN "L182" ELSE "L133")
     ELSE Return(h)
  /\ join_time' = [join_time EXCEPT ![h] = Nothing]
  /\ time_since_join' = [time_since_join EXCEPT ![h] = Nothing]
  /\ overlap' = [overlap EXCEPT ![h] = FALSE]
  /\ UNCHANGED <<recently_joined, now, static, ev, is_new, membership_id,
                 calls, overwrote_old,
                 stale>>

\* mutant of delete_message: the handler gives up when the deletion fails
delete_messageGuarding(h, outcome) ==
  /\ pc[h] = "L182"
  /\ Request(h, "delete", ev[h].id, outcome)
  /\ IF outcome = "success" THEN Goto(h, "L133") ELSE Return(h)
  /\ UNCHANGED <<recently_joined, now, static, ev, locals, history>>

\* delete_message, lines 113-129, called at line 182; its result is dropped
delete_message(h, outcome) ==
  /\ pc[h] = "L182"
  /\ Request(h, "delete", ev[h].id, outcome)
  /\ Goto(h, "L133")
  /\ UNCHANGED <<recently_joined, now, static, ev, locals, history>>

\* get_membership_id, lines 88-111, called from kick_user at line 133, and
\* kick_user's return at line 136
get_membership_id(h, outcome) ==
  /\ pc[h] = "L133"
  /\ Request(h, "lookup", ev[h].user_id, outcome)
  /\ IF outcome = "found"
     THEN /\ membership_id' = [membership_id EXCEPT ![h] = Some(MembershipOf(ev[h].user_id))]
          /\ Goto(h, "L138")
     ELSE IF outcome = "malformed"
     THEN \* KeyError at line 99 or 102 is no RequestException: it leaves
          \* get_membership_id and kick_user and is caught at line 189
          /\ Raise(h, "KeyError('response')")
          /\ UNCHANGED membership_id
     ELSE \* None: kick_user returns False at line 136
          /\ Return(h)
          /\ UNCHANGED membership_id
  /\ UNCHANGED <<recently_joined, now, static, ev, join_time, time_since_join,
                 is_new, history>>

\* mutant of kick_user: the status of the removal is not tested
kick_userIgnoringStatus(h, outcome) ==
  /\ pc[h] = "L138"
  /\ Request(h, "remove", membership_id[h][1], outcome)
  /\ Goto(h, "L185")
  /\ UNCHANGED <<recently_joined, now, static, ev, locals, history>>

\* mutant of kick_user: a removal that failed is requested once more
kick_userRetrying(h, outcome) ==
  /\ pc[h] = "L138"
  /\ Request(h, "remove", membership_id[h][1], outcome)
  /\ IF outcome = "success"
     THEN Goto(h, "L185")
     ELSE IF \A i \in DOMAIN calls[h] : calls[h][i].op # "remove"
     THEN Goto(h, "L138")
     ELSE Return(h)
  /\ UNCHANGED <<recently_joined, now, static, ev, locals, history>>

\* kick_user, lines 138-152: the removal request and the test of line 183
kick_user(h, outcome) ==
  /\ pc[h] = "L138"
  /\ Request(h, "remove", membership_id[h][1], outcome)
  /\ IF outcome = "success"
     THEN Goto(h, "L185")
     ELSE Return(h)
  /\ UNCHANGED <<recently_joined, now, static, ev, locals, history>>

\* line 184: the notification names data.get('name', 'Unknown')
NoticeFor(e) == e.name

\* mutant of send_bot_message: the handler returns when the notification
\* fails, before line 186
send_bot_messageGuarding(h, outcome) ==
  /\ pc[h] = "L185"
  /\ Request(h, "notify", NoticeFor(ev[h]), outcome)
  /\ IF outcome = "success" THEN Goto(h, "L186") ELSE Return(h)
  /\ UNCHANGED <<recently_joined, now, static, ev, locals, history>>

\* send_bot_message, lines 70-86, called at line 185; its result is dropped
send_bot_message(h, outcome) ==
  /\ pc[h] = "L185"
  /\ Request(h, "notify", NoticeFor(ev[h]), outcome)
  /\ Goto(h, "L186")
  /\ UNCHANGED <<recently_joined, now, static, ev, locals, history>>

\* line 186: if user_id in recently_joined
ForgetCheck(h) ==
  /\ pc[h] = "L186"
  /\ IF ~Has(recently_joined, ev[h].user_id)
     THEN Return(h)
     ELSE Goto(h, "L187")
  /\ UNCHANGED <<recently_joined, now, static, ev, locals, calls, history>>

\* mutant of ForgetDelete: the del of line 187 is left out
ForgetDeleteSkipped(h) ==
  /\ pc[h] = "L187"
  /\ Return(h)
  /\ UNCHANGED <<recently_joined, now, static, ev, locals, calls, history>>

\* line 187: del recently_joined[user_id]; KeyError when absent
ForgetDelete(h) ==
  /\ pc[h] = "L187"
  /\ IF ~Has(recently_joined, ev[h].user_id)
     THEN /\ Raise(h, "KeyError(user_id)")
          /\ UNCHANGED <<recently_joined, overwrote_old>>
     ELSE /\ recently_joined' = Del(recently_joined, ev[h].user_id)
          /\ overwrote_old' = [overwrote_old EXCEPT ![ev[h].user_id] = FALSE]
          /\ Return(h)
  /\ UNCHANGED <<now, static, ev, locals, calls, overlap,
                 stale>>

\* The steps of a handler that has been entered
Progress(h) ==
  \/ Dispatch(h)
  \/ IsNewCheck(h)
  \/ IsNewRead(h)
  \/ IsNewElapsed(h)
  \/ IsNewEvict(h)
  \/ Moderate(h)
  \/ \E o \in HttpOutcomes : delete_message(h, o)
  \/ \E o \in LookupOutcomes : get_membership_id(h, o)
  \/ \E o \in HttpOutcomes : kick_user(h, o)
  \/ \E o \in HttpOutcomes : send_bot_message(h, o)
  \/ ForgetCheck(h)
  \/ ForgetDelete(h)

Step(h) == (\E e \in PayloadsOf(workers) : webhook(h, e)) \/ Progress(h)

Next == Tick \/ \E h \in Handlers : Step(h)

Spec == Init /\ [][Next]_vars

\* The scheduler keeps running worker w1, whose own outbound requests are
\* answered; worker w2 may stop for ever at any place, an outbound request
\* that never returns included.
FairSpec == Init /\ [][Next]_vars /\ WF_vars(Progress("w1"))

\* ------------------------------------------- contains_banned_keyword alone
\* The texts handed to contains_banned_keyword: every string of up to
\* MaxProbeLen characters of ProbeAlphabet, and sample sentences.
ProbeAlphabet == {"p", "s", "5", "S", "x"}
TextPerson == <<"P","e","r","s","o","n">>
TextHealth == <<"h","e","a","l","t","h">>
TextCharger == <<"c","h","a","r","g","e","r"," ","i","n","c","l","u","d","e","d">>
TextHealthCharger ==
  <<"H","e","a","l","t","h","c","h","a","r","g","e","r"," ","I","n","c","l","u","d","e","d","!">>
TextFreed == <<"F","R","E","E","D">>
ProbeTexts ==
  UNION {[1..n -> ProbeAlphabet] : n \in 0..MaxProbeLen}
    \cup {TextPerson, TextHealth, TextCharger, TextHealthCharger, TextFreed,
          TextHi, TextAd, TextJoin, TextJoinAd}

KeywordInit ==
  /\ Loaded
  /\ workers = {"w1"}
  /\ probe \in ProbeTexts
  /\ verdict = Nothing

\* contains_banned_keyword(probe) returns
KeywordCall ==
  /\ verdict = Nothing
  /\ verdict' = Some(contains_banned_keyword(probe))
  /\ UNCHANGED <<recently_joined, now, workers, pc, ev, locals, calls, ack,
                 raised, history, probe>>

\* the next text is handed over
KeywordNextText ==
  /\ verdict # Nothing
  /\ probe' \in ProbeTexts
  /\ verdict' = Nothing
  /\ UNCHANGED <<recently_joined, now, workers, pc, ev, locals, calls, ack,
                 raised, history>>

KeywordNext == KeywordCall \/ KeywordNextText

KeywordSpec == KeywordInit /\ [][KeywordNext]_vars

\* ------------------------------------------------------------ properties
Serial == workers = {"w1"}
UserOf(h) == ev[h].user_id
Ops(h) == {calls[h][i].op : i \in DOMAIN calls[h]}
CallsOf(h, op) == {i \in DOMAIN calls[h] : calls[h][i].op = op}
RemovalSucceeded(h) ==
  \E i \in DOMAIN calls[h] : calls[h][i].op = "remove" /\ calls[h][i].res = "success"
RemovalFailed(h) ==
  \E i \in DOMAIN calls[h] :
    \/ calls[h][i].op = "lookup" /\ calls[h][i].res # "found"
    \/ calls[h][i].op = "remove" /\ calls[h][i].res # "success"
\* The texts of the model by what they contain, read off their letters
HasJoinWording(t) == t \in {TextJoin, TextJoinAd}
HasBannedWording(t) == t \in {TextAd, TextJoinAd}
SystemJoin(e) == e \in WellFormed /\ e.system /\ HasJoinWording(e.text)
\* a step of worker h that records a join (line 176)
JoinStep(h) == pc[h] = "L168" /\ pc'[h] = "done" /\ SystemJoin(ev[h])
\* A user without a record gets one only by a join event for that user.
AbsentUntilJoin ==
  \A u \in Users :
    (~Has(recently_joined, u) /\ Has(recently_joined', u))
      => \E h \in Handlers : JoinStep(h) /\ UserOf(h) = u
\* The recency check of a user without a record returns False, whatever the
\* clock shows.
AbsentIsNotRecent ==
  \A h \in Handlers :
    (pc[h] = "L155" /\ pc'[h] # "L155" /\ ~Has(recently_joined, UserOf(h)))
      => pc'[h] = "L180" /\ is_new'[h] = Some(FALSE)

\* C1: the Action Executor is invoked for a payload (a delete, lookup,
\* removal or notify request is made) if and only if the payload is no system
\* join event, its text has a banned keyword and the recency check of its
\* sender returned True, which it does exactly when the sender's record was
\* read and was not older than the window when the clock was read; a sender
\* who never joined, whose record expired or was forgotten gets no request.
C1_ExecutorIffFlaggedRecent ==
  \A h \in Handlers :
    /\ pc[h] \in {"idle", "L168", "L155", "L158", "L159", "L161", "L180"}
         => calls[h] = <<>>
    /\ pc[h] = "L180" =>
         /\ is_new[h] = Some(TRUE) <=>
              /\ join_time[h] # Nothing
              /\ time_since_join[h] # Nothing
              /\ time_since_join[h][1] <= NEW_USER_WINDOW_HOURS
         /\ (Serial /\ is_new[h] = Some(TRUE)) =>
              /\ Has(recently_joined, UserOf(h))
              /\ join_time[h] = Some(recently_joined[UserOf(h)])
         /\ (Serial /\ is_new[h] = Some(FALSE)) => ~Has(recently_joined, UserOf(h))
    /\ pc[h] = "done" =>
         (calls[h] # <<>> <=>
            /\ ev[h] \in WellFormed
            /\ ~SystemJoin(ev[h])
            /\ HasBannedWording(ev[h].text)
            /\ is_new[h] = Some(TRUE))
C1_Witness ==
  \E h \in Handlers :
    /\ pc[h] = "done" /\ ev[h] \in WellFormed /\ ev[h].system
    /\ "lookup" \in Ops(h)

\* C2 as claimed: the recency check returns True when less than 72 hours
\* have passed since the join and False from exactly 72 hours on.
C2_FalseFromExactly72 ==
  \A h \in Handlers :
    (pc[h] = "L180" /\ time_since_join[h] # Nothing)
      => (is_new[h] = Some(TRUE) <=> time_since_join[h][1] < NEW_USER_WINDOW_HOURS)
\* C2 amended: a recency check that reads the clock D hours after the
\* recorded join returns True for every D up to and including 72 and False
\* (evicting the record) for every D above 72.
C2_TrueUpToAndIncluding72 ==
  /\ [][\A h \in Handlers :
          (pc[h] = "L159" /\ pc'[h] # "L159") =>
             LET D == now - join_time[h][1] IN
             /\ time_since_join'[h] = Some(D)
             /\ D <= NEW_USER_WINDOW_HOURS => pc'[h] = "L180" /\ is_new'[h] = Some(TRUE)
             /\ D > NEW_USER_WINDOW_HOURS => pc'[h] = "L161" /\ is_new'[h] = Nothing]_vars
  /\ [][\A h \in Handlers :
          (pc[h] = "L161" /\ pc'[h] = "L180") => is_new'[h] = Some(FALSE)]_vars
  /\ [](\A h \in Handlers :
          (Serial /\ pc[h] = "L159") =>
             /\ Has(recently_joined, UserOf(h))
             /\ join_time[h] = Some(recently_joined[UserOf(h)])
             /\ join_time[h][1] <= now)
C2_Witness ==
  \E h \in Handlers :
    /\ pc[h] = "L180" /\ is_new[h] = Some(TRUE)
    /\ time_since_join[h] = Some(NEW_USER_WINDOW_HOURS)

\* C3: when the removal of the sender succeeds, exactly one notify request
\* is made, after the removal, and it names the payload's display name;
\* the step that ends the handler leaves the sender without a join record,
\* and a user without a record is not recent and gets a record again only by
\* a join event.
C3_RemovedNotifiedForgotten ==
  /\ [](\A h \in Handlers :
          (pc[h] \in {"L186", "L187", "done"} /\ RemovalSucceeded(h)) =>
             /\ Cardinality(CallsOf(h, "notify")) = 1
             /\ \A i \in CallsOf(h, "notify") : calls[h][i].arg = ev[h].name
             /\ \A i \in CallsOf(h, "remove") : i < Len(calls[h]))
  /\ [][\A h \in Handlers :
          (pc[h] \in {"L186", "L187"} /\ pc'[h] = "done")
             => ~Has(recently_joined', UserOf(h))]_vars
  /\ [][AbsentUntilJoin /\ AbsentIsNotRecent]_vars
C3_Witness ==
  \E h \in Handlers :
    /\ pc[h] = "done" /\ RemovalSucceeded(h) /\ ack[h] = Some(OK)
    /\ "notify" \in Ops(h)
    /\ ~Has(recently_joined, UserOf(h))

\* C4: when the removal fails (the lookup fails, the user is not among the
\* members, or the removal request fails) the handler ends there: it posts
\* no notification and its steps leave the mapping as it was, so with one
\* worker the sender still has the record the recency check read.
C4_FailedRemovalKeepsRecord ==
  /\ [](\A h \in Handlers :
          RemovalFailed(h) =>
             /\ pc[h] = "done"
             /\ "notify" \notin Ops(h)
             /\ Serial => /\ Has(recently_joined, UserOf(h))
                          /\ is_new[h] = Some(TRUE))
  /\ [][\A h \in Handlers :
          (pc[h] \in {"L133", "L138"} /\ pc'[h] = "done")
             => recently_joined' = recently_joined]_vars
C4_Witness ==
  \E h \in Handlers :
    /\ pc[h] = "done" /\ ack[h] = Some(OK)
    /\ \E i \in DOMAIN calls[h] : calls[h][i].op = "lookup" /\ calls[h][i].res = "missing"
    /\ Has(recently_joined, UserOf(h))
    /\ now - recently_joined[UserOf(h)] <= NEW_USER_WINDOW_HOURS

\* C5: a system payload whose text has "added" or "joined" in any letter
\* case records one join, for the payload's user at the current instant and
\* for nobody else, is answered 200, and is neither tested for recency nor
\* followed by any outbound request, banned keyword or not.
C5_SystemJoinOnlyRecords ==
  /\ [](\A h \in Handlers :
          (pc[h] = "done" /\ SystemJoin(ev[h])) =>
             /\ ack[h] = Some(OK)
             /\ calls[h] = <<>>
             /\ is_new[h] = Nothing)
  /\ [][\A h \in Handlers :
          (pc[h] = "L168" /\ pc'[h] # "L168" /\ SystemJoin(ev[h])) =>
             /\ pc'[h] = "done"
             /\ Has(recently_joined', UserOf(h))
             /\ recently_joined'[UserOf(h)] = now
             /\ \A u \in Users \ {UserOf(h)} :
                  /\ Has(recently_joined', u) <=> Has(recently_joined, u)
                  /\ Has(recently_joined, u) => recently_joined'[u] = recently_joined[u]]_vars
C5_Witness ==
  \E h \in Handlers :
    /\ pc[h] = "done" /\ ev[h] \in WellFormed /\ ev[h].system
    /\ ev[h].text = TextJoinAd
    /\ Has(recently_joined, UserOf(h))
    /\ recently_joined[UserOf(h)] = now /\ now > 0

\* C6: the recency check that finds the record older than the window evicts
\* it; from then on the user has no record, and the recency check of a user
\* without a record returns False whatever the clock shows, until a join
\* event for that user is recorded.
C6_ExpiredIsEvicted ==
  /\ [][\A h \in Handlers :
          (pc[h] = "L161" /\ pc'[h] = "L180") =>
             /\ ~Has(recently_joined', UserOf(h))
             /\ is_new'[h] = Some(FALSE)]_vars
  /\ [][AbsentIsNotRecent /\ AbsentUntilJoin]_vars
  /\ [](\A h \in Handlers :
          (Serial /\ pc[h] \in {"L180", "done"} /\ is_new[h] = Some(FALSE))
             => ~Has(recently_joined, UserOf(h)))
C6_Witness ==
  \E h \in Handlers :
    /\ pc[h] = "L180" /\ is_new[h] = Some(FALSE)
    /\ time_since_join[h] # Nothing
    /\ time_since_join[h][1] > NEW_USER_WINDOW_HOURS
    /\ ~Has(recently_joined, UserOf(h))

\* C7 as claimed: with one worker serving, a well-formed payload is answered
\* 200 whatever the outbound requests return (success, another status, a
\* transport exception, the user missing from the members, a 200 body
\* without the expected fields), and no exception reaches line 189.
C7_WellFormedAlwaysAcked ==
  \A h \in Handlers :
    (pc[h] = "done" /\ ev[h] \in WellFormed /\ Serial)
      => ack[h] = Some(OK) /\ raised[h] = Nothing

\* C8 as claimed: no handler fails on a record that another handler removed
\* between its presence test and its read or del.
C8_NoKeyErrorOnMapping ==
  \A h \in Handlers : raised[h] # Some("KeyError(user_id)")

InFlight(h) == pc[h] \notin {"idle", "done"}

\* C9: no worker waits for another that is inside an outbound request: every
\* entered handler always has a step it can take, an idle worker can always
\* be entered, and worker w1 ends every handler it enters with an
\* acknowledgment even when w2 never moves again.
C9_NoWaitOnOutbound ==
  /\ [](\A h \in workers :
          /\ InFlight(h) => ENABLED Progress(h)
          /\ ~InFlight(h) => ENABLED (\E e \in PayloadsOf(workers) : webhook(h, e)))
  /\ [](InFlight("w1") => <>(pc["w1"] = "done" /\ ack["w1"] # Nothing))
C9_Witness ==
  /\ InOutbound("w2")
  /\ pc["w1"] = "L180" /\ is_new["w1"] # Nothing
  /\ overlap["w1"]

\* C10: the mapping holds one timestamp per user and a join overwrites it:
\* the join step sets the user's record to the current instant whether or
\* not there was one, the recency check reads that record, and a user whose
\* record replaced one older than the window is recent for every elapsed
\* time below the window counted from the new join.
C10_RejoinOverwrites ==
  /\ [][\A h \in Handlers :
          JoinStep(h) =>
             /\ DOMAIN recently_joined' = DOMAIN recently_joined \cup {UserOf(h)}
             /\ recently_joined'[UserOf(h)] = now]_vars
  /\ [][\A h \in Handlers :
          (pc[h] = "L158" /\ pc'[h] = "L159")
             => join_time'[h] = Some(recently_joined[UserOf(h)])]_vars
  /\ [](\A u \in DOMAIN recently_joined : recently_joined[u] \in 0..now)
  /\ [](\A h \in Handlers :
          (/\ Serial /\ pc[h] = "L180" /\ overwrote_old[UserOf(h)]
           /\ time_since_join[h] # Nothing)
            => (time_since_join[h][1] < NEW_USER_WINDOW_HOURS
                  => is_new[h] = Some(TRUE)))
C10_Witness ==
  \E h \in Handlers :
    /\ pc[h] = "L180" /\ overwrote_old[UserOf(h)]
    /\ time_since_join[h] # Nothing
    /\ time_since_join[h][1] < NEW_USER_WINDOW_HOURS
    /\ time_since_join[h][1] > 0
    /\ is_new[h] = Some(TRUE)

\* C11: a malformed payload (not a JSON object, or an event whose text is
\* not a string, a system event included) is caught at line 189: the step
\* that parses it ends the handler with 500, makes no outbound request,
\* never consults the mapping and leaves it unchanged, and the worker can be
\* entered again with the next payload.
C11_MalformedCaught ==
  /\ [][\A h \in Handlers :
          (pc[h] = "L168" /\ pc'[h] # "L168" /\ ev[h] \in Malformed) =>
             /\ pc'[h] = "done"
             /\ ack'[h] = Some(ServerError)
             /\ raised'[h] = Some("AttributeError")
             /\ calls'[h] = <<>>
             /\ is_new'[h] = Nothing
             /\ recently_joined' = recently_joined]_vars
  /\ [](\A h \in workers :
          (pc[h] = "done" /\ ev[h] \in Malformed)
             => ENABLED (\E e \in PayloadsOf(workers) : webhook(h, e)))
C11_Witness ==
  \E h \in Handlers :
    /\ pc[h] = "done" /\ ev[h] \in TextNotString /\ ev[h].system
    /\ ack[h] = Some(ServerError) /\ calls[h] = <<>>
    /\ Has(recently_joined, UserOf(h))

\* a and b are the same character up to the case of a letter
SameFolded(a, b) ==
  a = b \/ \E i \in 1..Len(UpperCase) : {a, b} = {UpperCase[i], LowerCase[i]}

\* entry k occurs in text t at some position, letters compared up to case
OccursFolded(k, t) ==
  \E i \in 1..Len(t) :
    /\ i + Len(k) - 1 <= Len(t)
    /\ \A j \in 1..Len(k) : SameFolded(k[j], t[i + j - 1])

\* C12: contains_banned_keyword returns true exactly for the texts in which
\* some entry of the list as Python reads it occurs as a contiguous
\* substring, letters compared up to case (inside a longer word included),
\* and false for the empty text; 'health' and 'charger included' are no
\* entries of their own, 'healthcharger included' is one.
C12_KeywordIffSubstring ==
  verdict # Nothing =>
    /\ verdict[1] = (\E n \in DOMAIN BANNED_KEYWORDS :
                       OccursFolded(BANNED_KEYWORDS[n], probe))
    /\ probe = <<>> => verdict[1] = FALSE
    /\ probe \in {TextHealth, TextCharger} => verdict[1] = FALSE
    /\ probe \in {TextPerson, TextHealthCharger, TextFreed} => verdict[1] = TRUE
C12_Witness ==
  /\ verdict = Some(TRUE)
  /\ probe = <<"p", "S", "5">>

\* worker h deletes the record of user u at line 161, its check having
\* found a record of u older than the window
EvictStep(h, u) ==
  /\ UserOf(h) = u
  /\ pc[h] = "L161" /\ pc'[h] = "L180"
  /\ time_since_join[h] # Nothing
  /\ time_since_join[h][1] > NEW_USER_WINDOW_HOURS

\* worker h deletes the record of user u at line 187
ForgetStep(h, u) ==
  /\ UserOf(h) = u
  /\ pc[h] = "L187" /\ pc'[h] = "done"

Vanishes(u) == Has(recently_joined, u) /\ ~Has(recently_joined', u)

PipelineOrder(e) ==
  IF e.id # None THEN <<"delete", "lookup", "remove", "notify">>
                 ELSE <<"lookup", "remove", "notify">>

\* C14: the requests of a handler are made in the order delete, lookup and
\* removal, notify, the delete being made first and only for a payload with
\* a message id; whatever the delete returned (or when it was skipped) the
\* removal is attempted next, beginning with the member lookup; the notify
\* request and lines 186-187 are reached only after a removal request that
\* succeeded, and only line 187 of such a handler forgets a record.
C14_DeleteRemoveNotifyForget ==
  /\ [](\A h \in Handlers :
          /\ Len(calls[h]) <= Len(PipelineOrder(ev[h]))
          /\ \A i \in DOMAIN calls[h] : calls[h][i].op = PipelineOrder(ev[h])[i]
          /\ "delete" \in Ops(h) => calls[h][1].arg = ev[h].id
          /\ (pc[h] = "L133" /\ ev[h].id # None) => Ops(h) = {"delete"}
          /\ (pc[h] = "L133" /\ ev[h].id = None) => Ops(h) = {}
          /\ (pc[h] = "done" /\ "delete" \in Ops(h)) => "lookup" \in Ops(h)
          /\ (pc[h] \in {"L185", "L186", "L187"} \/ "notify" \in Ops(h))
                => /\ RemovalSucceeded(h)
                   /\ calls[h][Len(PipelineOrder(ev[h])) - 1].res = "success")
  /\ [][\A h \in Handlers :
          (pc[h] = "L180" /\ InFlight(h)' /\ pc'[h] # "L180")
             => pc'[h] = (IF ev[h].id # None THEN "L182" ELSE "L133")]_vars
  /\ [][\A h \in Handlers :
          (pc[h] = "L182" /\ pc'[h] # "L182") => pc'[h] = "L133"]_vars
  /\ [][\A h \in Handlers :
          (/\ pc[h] \in {"L180", "L182", "L133", "L138", "L185", "L186", "L187"}
           /\ pc'[h] # pc[h]
           /\ \E u \in Users : Vanishes(u))
             => pc[h] = "L187" /\ RemovalSucceeded(h)]_vars
C14_Witness ==
  \E h \in Handlers :
    /\ pc[h] = "done" /\ Len(calls[h]) = 4
    /\ calls[h][1].op = "delete" /\ calls[h][1].res = "exception"
    /\ calls[h][3].op = "remove" /\ calls[h][3].res = "success"
    /\ calls[h][4].op = "notify"
    /\ ~Has(recently_joined, UserOf(h))

\* C15: the notify request ends with the handler at line 186 whatever it
\* returned, the acknowledgment untouched; a handler whose removal succeeded
\* ends having made the notify request and, one worker serving, with the
\* sender's record forgotten and the answer 200, whether the notification
\* succeeded, got another status or raised.
C15_ForgetDespiteNotifyFailure ==
  /\ [][\A h \in Handlers :
          (pc[h] = "L185" /\ pc'[h] # "L185")
             => /\ pc'[h] = "L186"
                /\ ack'[h] = ack[h] /\ raised'[h] = raised[h]
                /\ recently_joined' = recently_joined]_vars
  /\ [](\A h \in Handlers :
          (pc[h] = "done" /\ RemovalSucceeded(h))
             => /\ "notify" \in Ops(h)
                /\ Serial => /\ ~Has(recently_joined, UserOf(h))
                             /\ ack[h] = Some(OK) /\ raised[h] = Nothing)
C15_Witness ==
  \E h \in Handlers :
    /\ pc[h] = "done" /\ RemovalSucceeded(h)
    /\ \E i \in CallsOf(h, "notify") : calls[h][i].res = "status"
    /\ ~Has(recently_joined, UserOf(h))
    /\ ack[h] = Some(OK)

\* C18: for one payload each outbound operation (delete, lookup, removal,
\* notify) is requested at most once, so a request that failed is not made
\* again, and a handler whose lookup or removal failed ends at once.
C18_NoRetry ==
  /\ [](\A h \in Handlers :
          \A op \in {"delete", "lookup", "remove", "notify"} :
            Cardinality(CallsOf(h, op)) <= 1)
  /\ [][\A h \in Handlers :
          (pc[h] \in {"L133", "L138"} /\ Len(calls'[h]) > Len(calls[h])
            /\ calls'[h][Len(calls'[h])].res \notin {"found", "success"})
             => pc'[h] = "done"]_vars
C18_Witness ==
  \E h \in Handlers :
    /\ pc[h] = "done" /\ Len(calls[h]) = 3
    /\ calls[h][1].op = "delete" /\ calls[h][1].res = "status"
    /\ calls[h][3].op = "remove" /\ calls[h][3].res = "exception"
    /\ Has(recently_joined, UserOf(h))

\* worker h handles a regular message: a well-formed payload, not a system
\* event
RegularMessage(h) == ev[h] \in WellFormed /\ ~ev[h].system

\* C16 as claimed: every regular message of a user who has a record has that
\* record read by the recency check, whatever its text.
C16_ReadOnEveryMessage ==
  \A h \in Handlers :
    (Serial /\ pc[h] = "done" /\ RegularMessage(h)
       /\ Has(recently_joined, UserOf(h)))
      => is_new[h] # Nothing

\* C16, amended: the recency check runs for exactly the regular messages
\* whose text holds a banned keyword; such a message, when the sender's
\* record is older than the window, leaves the sender without a record,
\* while a message without a banned keyword ends at once and leaves the
\* mapping as it is, an expired record included.
C16_ReadOnKeywordMessage ==
  /\ [](\A h \in Handlers :
          (pc[h] = "done" /\ RegularMessage(h) /\ raised[h] = Nothing)
             => (is_new[h] # Nothing <=> HasBannedWording(ev[h].text)))
  /\ [][\A h \in Handlers :
          (/\ pc[h] = "L168" /\ pc'[h] # "L168" /\ RegularMessage(h)
           /\ ~HasBannedWording(ev[h].text))
             => /\ pc'[h] = "done" /\ is_new'[h] = Nothing
                /\ recently_joined' = recently_joined]_vars
  /\ [](\A h \in Handlers :
          (/\ Serial /\ pc[h] = "L180" /\ RegularMessage(h)
           /\ time_since_join[h] # Nothing
           /\ time_since_join[h][1] > NEW_USER_WINDOW_HOURS)
             => ~Has(recently_joined, UserOf(h)) /\ is_new[h] = Some(FALSE))
\* u1's message without a keyword was handled after u2's join, which is more
\* than the window after u1's own join, and u1's record is still there
C16_Witness ==
  /\ Serial /\ pc["w1"] = "done" /\ RegularMessage("w1")
  /\ UserOf("w1") = "u1" /\ ev["w1"].text = TextHi
  /\ is_new["w1"] = Nothing /\ ack["w1"] = Some(OK)
  /\ Has(recently_joined, "u1") /\ Has(recently_joined, "u2")
  /\ recently_joined["u2"] - recently_joined["u1"] > NEW_USER_WINDOW_HOURS

\* worker g sends an outbound request (it steps to a line where a request
\* is in flight) for a payload that is not the one whose removal succeeded
RequestsForOther(g) ==
  /\ pc'[g] # pc[g]
  /\ pc'[g] \in {"L182", "L133", "L138", "L185"}
  /\ ~RemovalSucceeded(g)'

\* the removal request of worker h for user u has succeeded and no join of
\* u has been recorded since the recency check of h
RemovedBy(h, u) == UserOf(h) = u /\ RemovalSucceeded(h) /\ ~stale[h]

\* C17 as claimed: once a removal of a user has succeeded and until that
\* user joins again, no worker sends an outbound request for another
\* message of that user, two workers interleaved included.
C17_NoCallAfterRemoval ==
  [][\A g \in Handlers :
       RequestsForOther(g)
          => ~\E h \in Handlers \ {g} : RemovedBy(h, UserOf(g))]_vars

\* C19 as claimed: the forget step of a pipeline whose recency check
\* returned before a join of its sender was recorded deletes no record.
C19_JoinNotLostToStaleForget ==
  [][\A h \in Handlers :
       (pc[h] = "L187" /\ pc'[h] = "done" /\ stale[h])
          => recently_joined' = recently_joined]_vars

====
